---- MODULE Spec2Model ----
(***************************************************************************)
(* Flashnotes persistence engine: the buffer and settings commands of      *)
(* commands/buffer.rs and commands/settings.rs over the query layer of     *)
(* db/queries.rs, the schema triggers of db/schema.rs, the writer mutex    *)
(* and reader pool of state.rs, and the backup rotation of db/backup.rs.   *)
(*                                                                         *)
(* A text is kept run-length encoded: a sequence of runs [c, n], n copies  *)
(* of the one-byte character c, no two neighbouring runs of the same c.    *)
(* An Option is a sequence: <<>> is None and <<x>> is Some(x).             *)
(***************************************************************************)
EXTENDS Integers, Sequences, FiniteSets, Bags, TLC

(* ---------------------------------------------------------------- bounds *)
MaxBuffers == 2
NumThreads == 2
MaxTime == 1
MaxOps == 2
NumContents == 3
MaxReorder == 2
InitRows == 2
MaxDays == 9
MaxSkewDays == 3
MaxRows == 33
ListRows == 201

(* ------------------------------------------------------ program constants *)
MAX_BUFFER_SIZE == 10 * 1024 * 1024
SIDEBAR_LIMIT == 100
SEARCH_LIMIT == 20
POOL_SIZE == 4
MAX_BACKUPS == 7
BACKUP_INTERVAL_SECS == 24 * 60 * 60

Threads == 1..NumThreads
Ids == 1..MaxBuffers

Min(S) == CHOOSE x \in S : \A y \in S : x <= y
Max(S) == CHOOSE x \in S : \A y \in S : x >= y

(* ------------------------------------------------------------------ text *)
Run(ch, k) == [c |-> ch, n |-> k]

IsWhitespace(ch) == ch \in {" ", "\n", "\t"}

RECURSIVE ByteLen(_)
ByteLen(s) == IF s = <<>> THEN 0 ELSE Head(s).n + ByteLen(Tail(s))

(* The texts the commands are called with: a word; the empty text; a blank *)
(* line, a title line in spaces, a blank line and a preview line; a line   *)
(* break; a space.                                                         *)
SampleContents ==
    << <<Run("a", 1)>>,
       <<>>,
       <<Run("\n", 1), Run(" ", 1), Run("b", 1), Run(" ", 1), Run("\n", 2),
         Run("a", 1)>>,
       <<Run("\n", 1)>>,
       <<Run(" ", 1)>> >>

AtLimit == <<Run("a", MAX_BUFFER_SIZE)>>
OverLimit == <<Run("a", MAX_BUFFER_SIZE + 1)>>
ElevenMiB == <<Run("a", 11 * 1024 * 1024)>>

Contents ==
    {SampleContents[i] : i \in 1..Min({NumContents, Len(SampleContents)})}
        \cup {AtLimit, OverLimit, ElevenMiB}

(* str::lines: split at every line break; no line for the empty rest after *)
(* the last line break.                                                    *)
RECURSIVE LinesFrom(_, _, _, _)
LinesFrom(s, i, cur, acc) ==
    IF i > Len(s)
    THEN IF cur = <<>> THEN acc ELSE Append(acc, cur)
    ELSE IF s[i].c = "\n"
         THEN LinesFrom(s, i + 1, <<>>,
                        Append(acc, cur) \o [j \in 1..(s[i].n - 1) |-> <<>>])
         ELSE LinesFrom(s, i + 1, Append(cur, s[i]), acc)

Lines(s) == LinesFrom(s, 1, <<>>, <<>>)

(* str::trim *)
Trim(line) ==
    LET keep == {i \in 1..Len(line) : ~IsWhitespace(line[i].c)}
    IN IF keep = {} THEN <<>> ELSE SubSeq(line, Min(keep), Max(keep))

(* chars().take(k) *)
RECURSIVE TakeChars(_, _)
TakeChars(s, k) ==
    IF k = 0 \/ s = <<>> THEN <<>>
    ELSE IF Head(s).n <= k
         THEN <<Head(s)>> \o TakeChars(Tail(s), k - Head(s).n)
         ELSE <<Run(Head(s).c, k)>>

(* str::split_whitespace; the index's tokenizer splits the texts of this   *)
(* alphabet at the same places                                             *)
RECURSIVE SplitFrom(_, _, _, _)
SplitFrom(s, i, cur, acc) ==
    IF i > Len(s)
    THEN IF cur = <<>> THEN acc ELSE acc \cup {cur}
    ELSE IF IsWhitespace(s[i].c)
         THEN SplitFrom(s, i + 1, <<>>, IF cur = <<>> THEN acc ELSE acc \cup {cur})
         ELSE SplitFrom(s, i + 1, Append(cur, s[i]), acc)

split_whitespace(s) == SplitFrom(s, 1, <<>>, {})

(* the index query "term"*: the token starts with the term *)
IsPrefix(term, token) == TakeChars(token, ByteLen(term)) = term

UNTITLED ==
    <<Run("U", 1), Run("n", 1), Run("t", 1), Run("i", 1),
      Run("t", 1), Run("l", 1), Run("e", 1), Run("d", 1)>>

(* extract_title_preview without skip(1): the preview search starts at the *)
(* title line                                                              *)
extract_title_preview_no_skip(content) ==
    LET lines == Lines(content)
        full == {i \in 1..Len(lines) : Trim(lines[i]) # <<>>}
        first == IF full = {} THEN UNTITLED
                 ELSE TakeChars(Trim(lines[Min(full)]), 100)
    IN [title |-> first, preview |-> IF full = {} THEN <<>> ELSE first]

extract_title_preview(content) ==
    LET lines == Lines(content)
        full == {i \in 1..Len(lines) : Trim(lines[i]) # <<>>}
        after == {i \in full : i > Min(full)}
    IN [title |-> IF full = {} THEN UNTITLED
                  ELSE TakeChars(Trim(lines[Min(full)]), 100),
        preview |-> IF full = {} \/ after = {} THEN <<>>
                    ELSE TakeChars(Trim(lines[Min(after)]), 100)]

(* validate_buffer_size with >= for > *)
validate_buffer_size_strict(content) == ~(ByteLen(content) >= MAX_BUFFER_SIZE)

(* validate_buffer_size: TRUE when the content is accepted *)
validate_buffer_size(content) == ~(ByteLen(content) > MAX_BUFFER_SIZE)

(* -------------------------------------------------------------- database *)
(* db.buffers: the rows of table buffers, by id (the primary key);         *)
(* db.fts: the rows of the full-text table, a bag of [rowid, content];     *)
(* db.settings: the rows of table settings, by key.                        *)

FtsEntry(row) == [rowid |-> row.rowid, content |-> row.content]

(* trigger buffers_ai *)
buffers_ai(fts, new) == fts (+) SetToBag({FtsEntry(new)})

(* trigger buffers_ad: the index's 'delete' command *)
buffers_ad(fts, old) == fts (-) SetToBag({FtsEntry(old)})

(* buffers_au without its 'delete' of the old entry *)
buffers_au_insert_only(fts, old, new) == buffers_ai(fts, new)

(* trigger buffers_au *)
buffers_au(fts, old, new) == buffers_ai(buffers_ad(fts, old), new)

(* the rowid SQLite gives a new row of a table without INTEGER PRIMARY KEY *)
NewRowid(bufs) ==
    IF DOMAIN bufs = {} THEN 1 ELSE Max({bufs[i].rowid : i \in DOMAIN bufs}) + 1

(* WHERE is_archived = 0 *)
NotArchived(bufs) == {i \in DOMAIN bufs : ~bufs[i].is_archived}

(* UPDATE buffers SET ... WHERE id = ?, with trigger buffers_au *)
UpdateRow(d, id, new) ==
    IF id \in DOMAIN d.buffers
    THEN [d EXCEPT !.buffers[id] = new,
                   !.fts = buffers_au(@, d.buffers[id], new)]
    ELSE d

(* DELETE FROM buffers WHERE id in gone, with trigger buffers_ad per row *)
RECURSIVE DeleteFts(_, _, _)
DeleteFts(fts, bufs, gone) ==
    IF gone = {} THEN fts
    ELSE LET i == Min(gone)
         IN DeleteFts(buffers_ad(fts, bufs[i]), bufs, gone \ {i})

DeleteRows(d, gone) ==
    [d EXCEPT !.buffers = [i \in (DOMAIN d.buffers) \ gone |-> d.buffers[i]],
              !.fts = DeleteFts(@, d.buffers, gone)]

(* the ORDER BY without is_pinned DESC *)
SidebarBefore_unpinned(r1, r2) ==
    \/ r1.sort_order < r2.sort_order
    \/ r1.sort_order = r2.sort_order /\ r1.accessed_at > r2.accessed_at

(* ORDER BY is_pinned DESC, sort_order ASC, accessed_at DESC: r1 strictly  *)
(* before r2                                                               *)
SidebarBefore(r1, r2) ==
    \/ r1.is_pinned /\ ~r2.is_pinned
    \/ /\ r1.is_pinned = r2.is_pinned
       /\ \/ r1.sort_order < r2.sort_order
          \/ r1.sort_order = r2.sort_order /\ r1.accessed_at > r2.accessed_at

(* the orders of S, given each row paired with the number of rows before  *)
(* it: one order where no two rows are equal in all three keys, else every *)
(* order that puts no row after a row it comes before                      *)
RankedOrders(bufs, S, n, ranked) ==
    IF {r[1] : r \in ranked} = 0..(n - 1)
    THEN {[p \in 1..n |-> (CHOOSE r \in ranked : r[1] = p - 1)[2]]}
    ELSE {s \in [1..n -> S] :
            /\ \A i, j \in 1..n : i # j => s[i] # s[j]
            /\ \A i, j \in 1..n :
                  i < j => ~SidebarBefore(bufs[s[j]], bufs[s[i]])}

(* every order of the rows S the ORDER BY allows: rows equal in all three  *)
(* keys come in any order                                                  *)
SidebarOrders(bufs, S) ==
    RankedOrders(bufs, S, Cardinality(S),
                 {<<Cardinality({j \in S : SidebarBefore(bufs[j], bufs[i])}), i>> :
                     i \in S})

Summary(id, row) ==
    LET tp == extract_title_preview(row.content)
    IN [id |-> id, title |-> tp.title, preview |-> tp.preview,
        updated_at |-> row.updated_at, is_pinned |-> row.is_pinned]

(* get_sidebar_buffers: the result sets the query may return *)
get_sidebar_buffers(d, limit) ==
    {[i \in 1..Min({limit, Len(s)}) |-> Summary(s[i], d.buffers[s[i]])] :
        s \in SidebarOrders(d.buffers, NotArchived(d.buffers))}

(* get_sidebar_buffers with the offset the commands pass: the query of     *)
(* get_sidebar_buffers with LIMIT ? OFFSET ?                               *)
get_sidebar_buffers_offset(d, limit, offset) ==
    {[i \in 1..Min({limit, Len(s) - Min({offset, Len(s)})}) |->
         Summary(s[offset + i], d.buffers[s[offset + i]])] :
        s \in SidebarOrders(d.buffers, NotArchived(d.buffers))}

(* the subsets of S with k elements *)
RECURSIVE KSubsets(_, _)
KSubsets(S, k) ==
    IF k = 0 THEN {{}}
    ELSE IF S = {} THEN {}
    ELSE LET x == CHOOSE y \in S : TRUE
         IN {T \cup {x} : T \in KSubsets(S \ {x}, k - 1)} \cup KSubsets(S \ {x}, k)

(* MATCH ? on the quoted terms: the index reads its query up to the first  *)
(* NUL byte (the character "NUL"), which leaves a quote open, a syntax     *)
(* error                                                                   *)
IndexQueryParses(query) == \A i \in 1..Len(query) : query[i].c # "NUL"

(* search_buffers with the terms joined by OR *)
search_buffers_any_term(d, query, limit) ==
    LET terms == split_whitespace(query)
        hit(e) == \E term \in terms :
                      \E token \in split_whitespace(e.content) : IsPrefix(term, token)
        matched == {i \in NotArchived(d.buffers) :
                       \E e \in BagToSet(d.fts) :
                           e.rowid = d.buffers[i].rowid /\ hit(e)}
        result(i) == [id |-> i,
                      snippet |-> [text |-> d.buffers[i].content, marks |-> terms],
                      updated_at |-> d.buffers[i].updated_at]
        over == Cardinality(matched) - Min({limit, Cardinality(matched)})
    IN IF Trim(query) = <<>> THEN {{}}
       ELSE IF ~IndexQueryParses(query) THEN {}
       ELSE {{result(i) : i \in matched \ T} : T \in KSubsets(matched, over)}

(* search_buffers: the result sets the query may return (their order, by   *)
(* rank, is left out), none when the query is an error. An index entry     *)
(* matches when for every term it has a token starting with the term; the  *)
(* snippet is the joined row's content with the matched terms marked       *)
search_buffers(d, query, limit) ==
    LET terms == split_whitespace(query)
        hit(e) == \A term \in terms :
                      \E token \in split_whitespace(e.content) : IsPrefix(term, token)
        matched == {i \in NotArchived(d.buffers) :
                       \E e \in BagToSet(d.fts) :
                           e.rowid = d.buffers[i].rowid /\ hit(e)}
        result(i) == [id |-> i,
                      snippet |-> [text |-> d.buffers[i].content, marks |-> terms],
                      updated_at |-> d.buffers[i].updated_at]
        over == Cardinality(matched) - Min({limit, Cardinality(matched)})
    IN IF Trim(query) = <<>> THEN {{}}
       ELSE IF ~IndexQueryParses(query) THEN {}
       ELSE {{result(i) : i \in matched \ T} : T \in KSubsets(matched, over)}

(* sanitize_search_query: None for a query without a term and for a query  *)
(* that cannot be made a valid index query                                 *)
sanitize_search_query(query) ==
    IF split_whitespace(query) = {} \/ ~IndexQueryParses(query)
    THEN <<>>
    ELSE <<query>>

(* get_buffer_content with AND is_archived = 0 *)
get_buffer_content_live(d, id) ==
    IF id \in NotArchived(d.buffers) THEN <<d.buffers[id]>> ELSE <<>>

(* get_buffer_content: Some(row) or None *)
get_buffer_content(d, id) ==
    IF id \in DOMAIN d.buffers THEN <<d.buffers[id]>> ELSE <<>>

(* create_buffer; minOk: the MIN(sort_order) query succeeded (unwrap_or(-1)) *)
create_buffer(d, id, content, timestamp, minOk) ==
    LET live == NotArchived(d.buffers)
        min_order ==
            IF minOk
            THEN (IF live = {} THEN 0
                  ELSE Min({d.buffers[i].sort_order : i \in live})) - 1
            ELSE -1
        row == [content |-> content, created_at |-> timestamp,
                updated_at |-> timestamp, accessed_at |-> timestamp,
                is_archived |-> FALSE, is_pinned |-> FALSE,
                sort_order |-> min_order, rowid |-> NewRowid(d.buffers)]
    IN [d EXCEPT !.buffers = (id :> row) @@ d.buffers,
                 !.fts = buffers_ai(@, row)]

(* update_buffer_content that stamps created_at as well *)
update_buffer_content_recreating(d, id, content, timestamp) ==
    IF id \in DOMAIN d.buffers
    THEN UpdateRow(d, id, [d.buffers[id] EXCEPT !.content = content,
                                                !.updated_at = timestamp,
                                                !.created_at = timestamp])
    ELSE d

(* update_buffer_content that sets accessed_at as well *)
update_buffer_content_touching(d, id, content, timestamp) ==
    IF id \in DOMAIN d.buffers
    THEN UpdateRow(d, id, [d.buffers[id] EXCEPT !.content = content,
                                                !.updated_at = timestamp,
                                                !.accessed_at = timestamp])
    ELSE d

(* update_buffer_content that sets content alone *)
update_buffer_content_stale(d, id, content, timestamp) ==
    IF id \in DOMAIN d.buffers
    THEN UpdateRow(d, id, [d.buffers[id] EXCEPT !.content = content])
    ELSE d

update_buffer_content(d, id, content, timestamp) ==
    IF id \in DOMAIN d.buffers
    THEN UpdateRow(d, id, [d.buffers[id] EXCEPT !.content = content,
                                                !.updated_at = timestamp])
    ELSE d

(* touch_buffer writing the timestamp to updated_at *)
touch_buffer_wrong_column(d, id, timestamp) ==
    IF id \in DOMAIN d.buffers
    THEN UpdateRow(d, id, [d.buffers[id] EXCEPT !.updated_at = timestamp])
    ELSE d

touch_buffer(d, id, timestamp) ==
    IF id \in DOMAIN d.buffers
    THEN UpdateRow(d, id, [d.buffers[id] EXCEPT !.accessed_at = timestamp])
    ELSE d

(* get_next_buffer_id without id != ? *)
get_next_buffer_id_any(d, current_id) ==
    LET S == NotArchived(d.buffers)
    IN IF S = {} THEN {<<>>}
       ELSE {<<s[1]>> : s \in SidebarOrders(d.buffers, S)}

(* get_next_buffer_id without the ORDER BY *)
get_next_buffer_id_unordered(d, current_id) ==
    LET S == NotArchived(d.buffers) \ {current_id}
    IN IF S = {} THEN {<<>>} ELSE {<<i>> : i \in S}

(* get_next_buffer_id: the Options the query may return *)
get_next_buffer_id(d, current_id) ==
    LET S == NotArchived(d.buffers) \ {current_id}
    IN IF S = {} THEN {<<>>}
       ELSE {<<s[1]>> : s \in SidebarOrders(d.buffers, S)}

delete_buffer(d, id) == DeleteRows(d, {id} \cap DOMAIN d.buffers)

(* toggle_pin whose UPDATE sets the flag *)
toggle_pin_set(d, id) ==
    LET d2 == IF id \in DOMAIN d.buffers
              THEN UpdateRow(d, id, [d.buffers[id] EXCEPT !.is_pinned = TRUE])
              ELSE d
    IN [db |-> d2,
        pinned |-> IF id \in DOMAIN d2.buffers
                   THEN <<d2.buffers[id].is_pinned>> ELSE <<>>]

(* toggle_pin: the database after the UPDATE, and the SELECT's answer      *)
(* (None: QueryReturnedNoRows, an error)                                   *)
toggle_pin(d, id) ==
    LET d2 == IF id \in DOMAIN d.buffers
              THEN UpdateRow(d, id, [d.buffers[id] EXCEPT
                                        !.is_pinned = ~d.buffers[id].is_pinned])
              ELSE d
    IN [db |-> d2,
        pinned |-> IF id \in DOMAIN d2.buffers
                   THEN <<d2.buffers[id].is_pinned>> ELSE <<>>]

(* the loop's UPDATE without the index: every row gets sort_order 0 *)
reorder_execute_no_index(d, w, index, id) ==
    [db |-> d,
     tx |-> IF id \in DOMAIN w.buffers
            THEN UpdateRow(w, id, [w.buffers[id] EXCEPT !.sort_order = 0])
            ELSE w]

(* the loop's UPDATE on the connection itself, outside a transaction *)
reorder_execute_autocommit(d, w, index, id) ==
    LET done == IF id \in DOMAIN w.buffers
                THEN UpdateRow(w, id, [w.buffers[id] EXCEPT !.sort_order = index])
                ELSE w
    IN [db |-> done, tx |-> done]

(* the loop's UPDATE that also clears the pin flag *)
reorder_execute_unpinning(d, w, index, id) ==
    [db |-> d,
     tx |-> IF id \in DOMAIN w.buffers
            THEN UpdateRow(w, id, [w.buffers[id] EXCEPT !.sort_order = index,
                                                        !.is_pinned = FALSE])
            ELSE w]

(* reorder_buffers, one pass of the loop inside the transaction: d is the  *)
(* committed database, w the transaction's                                 *)
reorder_execute(d, w, index, id) ==
    [db |-> d,
     tx |-> IF id \in DOMAIN w.buffers
            THEN UpdateRow(w, id, [w.buffers[id] EXCEPT !.sort_order = index])
            ELSE w]

(* SQLite's TRIM(content): spaces only *)
SqlTrimIsEmpty(content) == \A i \in 1..Len(content) : content[i].c = " "

delete_empty_buffers(d) ==
    LET gone == {i \in NotArchived(d.buffers) : SqlTrimIsEmpty(d.buffers[i].content)}
    IN [db |-> DeleteRows(d, gone), count |-> Cardinality(gone)]

(* INSERT OR REPLACE INTO settings *)
set_setting(d, key, value) ==
    [d EXCEPT !.settings = (key :> value) @@ d.settings]

(* ----------------------------------------------------------------- state *)
VARIABLES
    db,       \* the committed database: what every connection reads
    wtx,      \* the write connection's open transaction (Option of a database)
    writer,   \* the threads holding AppState.writer (the mutex)
    pooled,   \* the threads holding a connection of AppState.reader_pool
    req,      \* per thread: the command it runs and its place in it
    last,     \* the command that returned in the last step: its arguments,
              \* its result, and what it saw
    now,      \* the clock, in seconds
    uuids,    \* how many ids Uuid::new_v4 has handed out
    ops,      \* commands started so far
    fresh,    \* history: id -> the content it was created with, until a save
              \* or a removal of that id
    stamped,  \* history: id -> the (content, updated_at) last written together
    backups   \* the timestamps of the flashnotes_<ts>.db files of backups/

vars == <<db, wtx, writer, pooled, req, last, now, uuids, ops, fresh, stamped,
          backups>>

Ok(v) == [ok |-> TRUE, err |-> "", val |-> <<v>>]
Err(e) == [ok |-> FALSE, err |-> e, val |-> <<>>]

Idle ==
    [op |-> "idle", pc |-> "idle", id |-> 0, content |-> <<>>, ids |-> <<>>,
     key |-> "", value |-> "", ts |-> 0, k |-> 0, via |-> "", base |-> <<>>]

Call(op, pc) == [Idle EXCEPT !.op = op, !.pc = pc]

(* a thread of a process whose setup has not registered the AppState: no   *)
(* command is served                                                       *)
Down == [Idle EXCEPT !.pc = "down"]

NoLast == [t |-> 0, call |-> Idle, res |-> Err(""), seen |-> <<>>]

(* the default rows initialize_schema inserts into settings *)
DefaultSettings ==
    [k \in {"font_family", "font_size", "line_height"} |->
        CASE k = "font_family" -> "JetBrains Mono"
          [] k = "font_size" -> "13"
          [] OTHER -> "1.5"]

(* initialize_schema that overwrites the settings with the defaults *)
initialize_schema_replace(d) == [d EXCEPT !.settings = DefaultSettings @@ @]

(* initialize_schema: CREATE ... IF NOT EXISTS keeps what is there, and      *)
(* INSERT OR IGNORE adds the default settings that are missing             *)
initialize_schema(d) == [d EXCEPT !.settings = @ @@ DefaultSettings]

BlankFile == [buffers |-> <<>>, fts |-> EmptyBag, settings |-> <<>>]

EmptyDb == initialize_schema(BlankFile)

(* The database file as earlier runs left it: n create calls at time 0     *)
(* (the i-th with the i-th sample content), then, as the flags say, the    *)
(* first buffer pinned by toggle_pin, the first buffer archived (by a      *)
(* build with the archive command: no command of this one sets the flag),  *)
(* and every buffer dragged to sort_order 0 by one reorder call each.      *)
SampleOf(i) == SampleContents[((i - 1) % Min({NumContents, Len(SampleContents)})) + 1]

RECURSIVE CreatedDb(_)
CreatedDb(n) ==
    IF n = 0 THEN EmptyDb
    ELSE create_buffer(CreatedDb(n - 1), n, SampleOf(n), 0, TRUE)

RECURSIVE DraggedDb(_, _)
DraggedDb(d, n) ==
    IF n = 0 THEN d ELSE DraggedDb(reorder_execute(d, d, 0, n).tx, n - 1)

StoredDb(n, pinned, archived, dragged) ==
    LET d1 == CreatedDb(n)
        d2 == IF pinned THEN toggle_pin(d1, 1).db ELSE d1
        d3 == IF archived
              THEN UpdateRow(d2, 1, [d2.buffers[1] EXCEPT !.is_archived = TRUE])
              ELSE d2
    IN IF dragged THEN DraggedDb(d3, n) ELSE d3

Stamp(row) == [content |-> row.content, updated_at |-> row.updated_at]

Init ==
    /\ \E n \in 0..InitRows, pinned, archived, dragged \in BOOLEAN :
          /\ pinned \/ archived => n > 0
          /\ dragged => n > 1
          /\ db = StoredDb(n, pinned, archived, dragged)
          /\ uuids = n
          /\ fresh = [i \in 1..n |-> SampleOf(i)]
          /\ stamped = [i \in 1..n |-> Stamp(CreatedDb(n).buffers[i])]
    /\ wtx = <<>>
    /\ writer = {}
    /\ pooled = {}
    /\ req = [t \in Threads |-> Idle]
    /\ last = NoLast
    /\ now = 0
    /\ ops = 0
    /\ backups = {}

(* ------------------------------------------------------ locks and the pool *)
(* a lock that never waits *)
lock_unguarded(t) == TRUE

(* parking_lot::Mutex::lock on AppState.writer: TRUE when t may take it    *)
lock(t) == writer = {}

(* AppState::get_reader: got is TRUE when the pool hands out a connection; *)
(* it cannot while POOL_SIZE are out, and may fail at any time             *)
get_reader(t, got) == got => Cardinality(pooled \ {t}) < POOL_SIZE

(* a command entered whether or not the AppState is registered *)
Start_unregistered(t) ==
    /\ req[t].pc \in {"idle", "down"}
    /\ ops < MaxOps
    /\ ops' = ops + 1

(* thread t enters a command *)
Start(t) ==
    /\ req[t].pc = "idle"
    /\ ops < MaxOps
    /\ ops' = ops + 1

(* thread t goes on to the next step of its command *)
Goto(t, r) ==
    /\ req' = [req EXCEPT ![t] = r]
    /\ last' = NoLast

(* thread t enters a command whose first step is writer.lock(): the call   *)
(* is taken up when the mutex is free; r is the command with the guard held *)
StartLocked(t, r) ==
    /\ Start(t)
    /\ lock(t)
    /\ writer' = writer \cup {t}
    /\ pooled' = pooled
    /\ Goto(t, r)

(* the command r of thread t returns: its guards are dropped *)
(* a return that keeps the write lock *)
Finish_holding_writer(t, r, res, seen) ==
    /\ req' = [req EXCEPT ![t] = Idle]
    /\ last' = [t |-> t, call |-> [r EXCEPT !.pc = "done"], res |-> res,
                seen |-> seen]
    /\ writer' = writer
    /\ pooled' = pooled \ {t}

Finish(t, r, res, seen) ==
    /\ req' = [req EXCEPT ![t] = Idle]
    /\ last' = [t |-> t, call |-> [r EXCEPT !.pc = "done"], res |-> res,
                seen |-> seen]
    /\ writer' = writer \ {t}
    /\ pooled' = pooled \ {t}

AcquireWriter(t) ==
    /\ req[t].pc = "lock"
    /\ lock(t)
    /\ writer' = writer \cup {t}
    /\ Goto(t, [req[t] EXCEPT !.pc = "exec"])
    /\ UNCHANGED <<db, wtx, pooled, now, uuids, ops, fresh, stamped, backups>>

Tick ==
    /\ now < MaxTime
    /\ now' = now + 1
    /\ last' = NoLast
    /\ UNCHANGED <<db, wtx, writer, pooled, req, uuids, ops, fresh, stamped,
                   backups>>

Drop(f, S) == [i \in (DOMAIN f) \ S |-> f[i]]

(* what the connection of command r reads: a pooled connection the         *)
(* committed database, the write connection its open transaction if it has *)
(* one                                                                     *)
View(r) == IF r.via = "writer" /\ wtx # <<>> THEN wtx[1] ELSE db

(* ---------------------------------------------------------- create_buffer *)
(* timestamp: the clock as create_buffer read it before it waited for the *)
(* writer                                                                  *)
create_buffer_call(t, content, timestamp) ==
    /\ IF validate_buffer_size(content)
       THEN /\ uuids < MaxBuffers
            /\ uuids' = uuids + 1
            /\ StartLocked(t, [Call("create", "exec") EXCEPT
                                  !.id = uuids + 1, !.content = content,
                                  !.ts = timestamp])
       ELSE /\ timestamp = now
            /\ uuids' = uuids
            /\ Start(t)
            /\ Finish(t, [Call("create", "done") EXCEPT !.content = content],
                      Err("too large"), <<>>)
    /\ UNCHANGED <<db, wtx, now, fresh, stamped, backups>>

create_buffer_exec(t) ==
    LET r == req[t] IN
    /\ r.op = "create" /\ r.pc = "exec"
    /\ \E ok, minOk \in BOOLEAN :
          IF ok
          THEN /\ db' = create_buffer(db, r.id, r.content, r.ts, minOk)
               /\ fresh' = (r.id :> r.content) @@ fresh
               /\ stamped' = (r.id :> [content |-> r.content,
                                       updated_at |-> r.ts]) @@ stamped
               /\ LET tp == extract_title_preview(r.content)
                  IN Finish(t, r, Ok([id |-> r.id, title |-> tp.title,
                                      preview |-> tp.preview, updated_at |-> r.ts,
                                      is_pinned |-> FALSE]), <<>>)
          ELSE /\ minOk
               /\ Finish(t, r, Err("Failed to create buffer"), <<>>)
               /\ UNCHANGED <<db, fresh, stamped>>
    /\ UNCHANGED <<wtx, now, uuids, ops, backups>>

(* ------------------------------------------------------------ save_buffer *)
save_buffer_call(t, id, content) ==
    /\ IF validate_buffer_size(content)
       THEN StartLocked(t, [Call("save", "exec") EXCEPT
                               !.id = id, !.content = content])
       ELSE /\ Start(t)
            /\ Finish(t, [Call("save", "done") EXCEPT
                              !.id = id, !.content = content],
                      Err("too large"), <<>>)
    /\ UNCHANGED <<db, wtx, now, uuids, fresh, stamped, backups>>

(* save_buffer that reports an UPDATE of no row as an error *)
save_buffer_exec_not_found(t) ==
    LET r == req[t] IN
    /\ r.op = "save" /\ r.pc = "exec"
    /\ \E ok \in BOOLEAN :
          IF ok /\ r.id \in DOMAIN db.buffers
          THEN /\ db' = update_buffer_content(db, r.id, r.content, now)
               /\ fresh' = Drop(fresh, {r.id})
               /\ stamped' = [stamped EXCEPT ![r.id] =
                                 [content |-> r.content, updated_at |-> now]]
               /\ Finish(t, r, Ok(extract_title_preview(r.content)), <<>>)
          ELSE /\ Finish(t, r, Err(IF ok THEN "Buffer not found"
                                    ELSE "Failed to save buffer"), <<>>)
               /\ UNCHANGED <<db, fresh, stamped>>
    /\ UNCHANGED <<wtx, now, uuids, ops, backups>>

save_buffer_exec(t) ==
    LET r == req[t] IN
    /\ r.op = "save" /\ r.pc = "exec"
    /\ \E ok \in BOOLEAN :
          IF ok
          THEN /\ db' = update_buffer_content(db, r.id, r.content, now)
               /\ fresh' = Drop(fresh, {r.id} \cap DOMAIN db.buffers)
               /\ stamped' = IF r.id \in DOMAIN db.buffers
                             THEN [stamped EXCEPT ![r.id] =
                                      [content |-> r.content, updated_at |-> now]]
                             ELSE stamped
               /\ Finish(t, r, Ok(extract_title_preview(r.content)), <<>>)
          ELSE /\ Finish(t, r, Err("Failed to save buffer"), <<>>)
               /\ UNCHANGED <<db, fresh, stamped>>
    /\ UNCHANGED <<wtx, now, uuids, ops, backups>>

(* ----------------------------------------------------- get_buffer_content *)
get_buffer_content_call(t, id) ==
    /\ Start(t)
    /\ \E got \in BOOLEAN :
          /\ get_reader(t, got)
          /\ pooled' = IF got THEN pooled \cup {t} ELSE pooled
          /\ Goto(t, [Call("get", "lock") EXCEPT
                         !.id = id, !.via = IF got THEN "pool" ELSE "writer"])
    /\ UNCHANGED <<db, wtx, writer, now, uuids, fresh, stamped, backups>>

(* touch_buffer under the writer; on the pool path the guard is dropped at *)
(* the end of the block, on the fallback path it is kept for the read.     *)
(* base keeps the row as it was before the UPDATE                          *)
get_buffer_content_touch(t) ==
    LET r == req[t] IN
    /\ r.op = "get" /\ r.pc = "exec"
    /\ \E ok \in BOOLEAN :
          IF ok
          THEN /\ db' = touch_buffer(db, r.id, now)
               /\ Goto(t, [r EXCEPT !.pc = "read",
                                    !.base = get_buffer_content(db, r.id)])
               /\ writer' = IF r.via = "pool" THEN writer \ {t} ELSE writer
               /\ pooled' = pooled
          ELSE /\ Finish(t, r, Err("Failed to touch buffer"), <<>>)
               /\ db' = db
    /\ UNCHANGED <<wtx, now, uuids, ops, fresh, stamped, backups>>

get_buffer_content_read(t) ==
    LET r == req[t]
        row == get_buffer_content(View(r), r.id)
        seen == [row |-> row,
                 fresh |-> IF r.id \in DOMAIN fresh THEN <<fresh[r.id]>> ELSE <<>>,
                 stamp |-> IF r.id \in DOMAIN stamped THEN <<stamped[r.id]>> ELSE <<>>]
    IN
    /\ r.op = "get" /\ r.pc = "read"
    /\ \E ok \in BOOLEAN :
          IF ~ok THEN Finish(t, r, Err("Failed to get buffer"), <<>>)
          ELSE IF row = <<>> THEN Finish(t, r, Err("Buffer not found"), seen)
          ELSE Finish(t, r, Ok(row[1].content), seen)
    /\ UNCHANGED <<db, wtx, now, uuids, ops, fresh, stamped, backups>>

(* ------------------------------------------------------- get_sidebar_data *)
get_sidebar_data_call(t, offset) ==
    /\ Start(t)
    /\ \E got \in BOOLEAN :
          /\ get_reader(t, got)
          /\ pooled' = IF got THEN pooled \cup {t} ELSE pooled
          /\ Goto(t, IF got
                     THEN [Call("list", "read") EXCEPT !.via = "pool", !.k = offset]
                     ELSE [Call("list", "lock") EXCEPT !.via = "writer", !.k = offset])
    /\ UNCHANGED <<db, wtx, writer, now, uuids, fresh, stamped, backups>>

(* get_sidebar_data that leaves the offset out of the query *)
get_sidebar_data_read_first_page(t) ==
    LET r == req[t] IN
    /\ r.op = "list"
    /\ r.pc = IF r.via = "pool" THEN "read" ELSE "exec"
    /\ \E ok \in BOOLEAN :
          IF ok
          THEN \E rows \in get_sidebar_buffers(View(r), SIDEBAR_LIMIT) :
                  Finish(t, r, Ok(rows), [stamped |-> stamped, tx |-> wtx])
          ELSE Finish(t, r, Err("Failed to get sidebar data"), <<>>)
    /\ UNCHANGED <<db, wtx, now, uuids, ops, fresh, stamped, backups>>

(* offset 0 (the first load) is the query of queries.rs; a later batch is  *)
(* the same query with the offset                                          *)
get_sidebar_data_read(t) ==
    LET r == req[t]
        pages == IF r.k = 0 THEN get_sidebar_buffers(View(r), SIDEBAR_LIMIT)
                 ELSE get_sidebar_buffers_offset(View(r), SIDEBAR_LIMIT, r.k)
    IN
    /\ r.op = "list"
    /\ r.pc = IF r.via = "pool" THEN "read" ELSE "exec"
    /\ \E ok \in BOOLEAN :
          IF ok
          THEN \E rows \in pages :
                  Finish(t, r, Ok(rows), [stamped |-> stamped, tx |-> wtx])
          ELSE Finish(t, r, Err("Failed to get sidebar data"), <<>>)
    /\ UNCHANGED <<db, wtx, now, uuids, ops, fresh, stamped, backups>>

(* --------------------------------------------------------- search_buffers *)
SearchInputs == {<<Run("a", 1)>>, <<Run(" ", 1)>>}

(* search_buffers that passes the query on as it is *)
search_buffers_call_unsanitized(t, query) ==
    /\ Start(t)
    /\ \E got \in BOOLEAN :
          /\ get_reader(t, got)
          /\ pooled' = IF got THEN pooled \cup {t} ELSE pooled
          /\ writer' = writer
          /\ Goto(t, [Call("search", IF got THEN "read" ELSE "lock") EXCEPT
                         !.content = query,
                         !.via = IF got THEN "pool" ELSE "writer"])
    /\ UNCHANGED <<db, wtx, now, uuids, fresh, stamped, backups>>

(* search_buffers that returns an error for a rejected query *)
search_buffers_call_none_as_error(t, query) ==
    LET sanitized == sanitize_search_query(query) IN
    /\ Start(t)
    /\ IF sanitized = <<>>
       THEN /\ Finish(t, [Call("search", "done") EXCEPT !.content = query],
                      IF split_whitespace(query) = {} THEN Ok({})
                      ELSE Err("Invalid search query"), <<>>)
       ELSE \E got \in BOOLEAN :
               /\ get_reader(t, got)
               /\ pooled' = IF got THEN pooled \cup {t} ELSE pooled
               /\ writer' = writer
               /\ Goto(t, [Call("search", IF got THEN "read" ELSE "lock") EXCEPT
                              !.content = sanitized[1],
                              !.via = IF got THEN "pool" ELSE "writer"])
    /\ UNCHANGED <<db, wtx, now, uuids, fresh, stamped, backups>>

search_buffers_call(t, query) ==
    LET sanitized == sanitize_search_query(query) IN
    /\ Start(t)
    /\ IF sanitized = <<>>
       THEN /\ Finish(t, [Call("search", "done") EXCEPT !.content = query],
                      Ok({}), <<>>)
       ELSE \E got \in BOOLEAN :
               /\ get_reader(t, got)
               /\ pooled' = IF got THEN pooled \cup {t} ELSE pooled
               /\ writer' = writer
               /\ Goto(t, [Call("search", IF got THEN "read" ELSE "lock") EXCEPT
                              !.content = sanitized[1],
                              !.via = IF got THEN "pool" ELSE "writer"])
    /\ UNCHANGED <<db, wtx, now, uuids, fresh, stamped, backups>>

search_buffers_read(t) ==
    LET r == req[t] IN
    /\ r.op = "search"
    /\ r.pc = IF r.via = "pool" THEN "read" ELSE "exec"
    /\ \E ok \in BOOLEAN :
          IF ok
          THEN \E rows \in search_buffers(View(r), r.content, SEARCH_LIMIT) :
                  Finish(t, r, Ok(rows), [stamped |-> stamped, tx |-> wtx])
          ELSE Finish(t, r, Err("Failed to search buffers"), <<>>)
    /\ UNCHANGED <<db, wtx, now, uuids, ops, fresh, stamped, backups>>

(* ---------------------------------------------------------- delete_buffer *)
delete_buffer_call(t, id) ==
    /\ StartLocked(t, [Call("delete", "exec") EXCEPT !.id = id])
    /\ UNCHANGED <<db, wtx, now, uuids, fresh, stamped, backups>>

delete_buffer_exec(t) ==
    LET r == req[t]
        others == {i \in DOMAIN db.buffers : i # r.id /\ ~db.buffers[i].is_archived}
    IN
    /\ r.op = "delete" /\ r.pc = "exec"
    /\ \E fail \in {"", "Failed to get next buffer", "Failed to delete buffer"} :
          IF fail = ""
          THEN \E next_id \in get_next_buffer_id(db, r.id) :
                  /\ db' = delete_buffer(db, r.id)
                  /\ fresh' = Drop(fresh, {r.id})
                  /\ stamped' = Drop(stamped, {r.id})
                  /\ Finish(t, r, Ok(next_id),
                            [others |-> others,
                             existed |-> r.id \in DOMAIN db.buffers])
          ELSE /\ Finish(t, r, Err(fail), <<>>)
               /\ UNCHANGED <<db, fresh, stamped>>
    /\ UNCHANGED <<wtx, now, uuids, ops, backups>>

(* ------------------------------------------------------------- toggle_pin *)
toggle_pin_call(t, id) ==
    /\ StartLocked(t, [Call("toggle_pin", "exec") EXCEPT !.id = id])
    /\ UNCHANGED <<db, wtx, now, uuids, fresh, stamped, backups>>

toggle_pin_exec(t) ==
    LET r == req[t]
        out == toggle_pin(db, r.id)
    IN
    /\ r.op = "toggle_pin" /\ r.pc = "exec"
    /\ \E fail \in {"", "update", "select"} :
          /\ db' = IF fail = "update" THEN db ELSE out.db
          /\ IF fail = "" /\ out.pinned # <<>>
             THEN Finish(t, r, Ok(out.pinned[1]), <<>>)
             ELSE Finish(t, r, Err("Failed to toggle pin"), <<>>)
    /\ UNCHANGED <<wtx, now, uuids, ops, fresh, stamped, backups>>

(* -------------------------------------------------------- reorder_buffers *)
ReorderInputs == UNION {[1..n -> Ids] : n \in 0..MaxReorder}

reorder_buffers_call(t, ids) ==
    /\ StartLocked(t, [Call("reorder", "exec") EXCEPT !.ids = ids])
    /\ UNCHANGED <<db, wtx, now, uuids, fresh, stamped, backups>>

(* conn.transaction() *)
reorder_buffers_begin(t) ==
    LET r == req[t] IN
    /\ r.op = "reorder" /\ r.pc = "exec"
    /\ \E ok \in BOOLEAN :
          IF ok
          THEN /\ wtx' = <<db>>
               /\ Goto(t, [r EXCEPT !.pc = "tx", !.k = 0, !.base = <<db>>])
               /\ UNCHANGED <<writer, pooled>>
          ELSE /\ Finish(t, [r EXCEPT !.base = <<db>>],
                         Err("Failed to reorder buffers"), <<>>)
               /\ wtx' = wtx
    /\ UNCHANGED <<db, now, uuids, ops, fresh, stamped, backups>>

(* one tx.execute of the loop; a failure returns, and the dropped          *)
(* transaction rolls back                                                  *)
reorder_buffers_row(t) ==
    LET r == req[t] IN
    /\ r.op = "reorder" /\ r.pc = "tx" /\ r.k < Len(r.ids)
    /\ \E ok \in BOOLEAN :
          IF ok
          THEN LET out == reorder_execute(db, wtx[1], r.k, r.ids[r.k + 1])
               IN /\ db' = out.db
                  /\ wtx' = <<out.tx>>
                  /\ Goto(t, [r EXCEPT !.k = r.k + 1])
                  /\ UNCHANGED <<writer, pooled>>
          ELSE /\ wtx' = <<>>
               /\ db' = db
               /\ Finish(t, r, Err("Failed to reorder buffers"), <<>>)
    /\ UNCHANGED <<now, uuids, ops, fresh, stamped, backups>>

(* tx.commit() *)
reorder_buffers_commit(t) ==
    LET r == req[t] IN
    /\ r.op = "reorder" /\ r.pc = "tx" /\ r.k = Len(r.ids)
    /\ \E ok \in BOOLEAN :
          /\ db' = IF ok THEN wtx[1] ELSE db
          /\ wtx' = <<>>
          /\ Finish(t, r, IF ok THEN Ok(<<>>) ELSE Err("Failed to reorder buffers"),
                    <<>>)
    /\ UNCHANGED <<now, uuids, ops, fresh, stamped, backups>>

(* -------------------------------------------------- cleanup_empty_buffers *)
cleanup_empty_buffers_call(t) ==
    /\ StartLocked(t, Call("cleanup", "exec"))
    /\ UNCHANGED <<db, wtx, now, uuids, fresh, stamped, backups>>

cleanup_empty_buffers_exec(t) ==
    LET r == req[t]
        out == delete_empty_buffers(db)
        gone == (DOMAIN db.buffers) \ DOMAIN out.db.buffers
    IN
    /\ r.op = "cleanup" /\ r.pc = "exec"
    /\ \E ok \in BOOLEAN :
          IF ok
          THEN /\ db' = out.db
               /\ fresh' = Drop(fresh, gone)
               /\ stamped' = Drop(stamped, gone)
               /\ Finish(t, r, Ok(out.count), <<>>)
          ELSE /\ Finish(t, r, Err("Failed to cleanup empty buffers"), <<>>)
               /\ UNCHANGED <<db, fresh, stamped>>
    /\ UNCHANGED <<wtx, now, uuids, ops, backups>>

(* ------------------------------------------------------------ set_setting *)
SettingInputs == {<<"font_size", "16">>}

set_setting_call(t, key, value) ==
    /\ StartLocked(t, [Call("set_setting", "exec") EXCEPT !.key = key, !.value = value])
    /\ UNCHANGED <<db, wtx, now, uuids, fresh, stamped, backups>>

set_setting_exec(t) ==
    LET r == req[t] IN
    /\ r.op = "set_setting" /\ r.pc = "exec"
    /\ \E ok \in BOOLEAN :
          /\ db' = IF ok THEN set_setting(db, r.key, r.value) ELSE db
          /\ Finish(t, r, IF ok THEN Ok(<<>>) ELSE Err("Failed to save setting"), <<>>)
    /\ UNCHANGED <<wtx, now, uuids, ops, fresh, stamped, backups>>

(* ------------------------------------------------------------------- Next *)
Next ==
    \/ Tick
    \/ \E t \in Threads :
          \/ AcquireWriter(t)
          \/ \E content \in Contents, ts \in 0..now :
                create_buffer_call(t, content, ts)
          \/ create_buffer_exec(t)
          \/ \E id \in Ids, content \in Contents : save_buffer_call(t, id, content)
          \/ save_buffer_exec(t)
          \/ \E id \in Ids : get_buffer_content_call(t, id)
          \/ get_buffer_content_touch(t)
          \/ get_buffer_content_read(t)
          \/ get_sidebar_data_call(t, 0)
          \/ get_sidebar_data_read(t)
          \/ \E query \in SearchInputs : search_buffers_call(t, query)
          \/ search_buffers_read(t)
          \/ \E id \in Ids : delete_buffer_call(t, id)
          \/ delete_buffer_exec(t)
          \/ \E id \in Ids : toggle_pin_call(t, id)
          \/ toggle_pin_exec(t)
          \/ \E ids \in ReorderInputs : reorder_buffers_call(t, ids)
          \/ reorder_buffers_begin(t)
          \/ reorder_buffers_row(t)
          \/ reorder_buffers_commit(t)
          \/ cleanup_empty_buffers_call(t)
          \/ cleanup_empty_buffers_exec(t)
          \/ \E kv \in SettingInputs : set_setting_call(t, kv[1], kv[2])
          \/ set_setting_exec(t)

Spec == Init /\ [][Next]_vars

(* ----------------------------------------------------------------- search *)
(* the queries search is called with: empty, blank, one term, two terms,   *)
(* a term with a NUL byte                                                  *)
SearchQueries ==
    {<<>>,
     <<Run(" ", 2)>>,
     <<Run("a", 1)>>,
     <<Run(" ", 1), Run("a", 1), Run(" ", 1), Run("b", 1)>>,
     <<Run("a", 1), Run("NUL", 1), Run("b", 1)>>}

(* the whitespace-only contents a buffer is saved with: a line break, a   *)
(* space                                                                   *)
BlankContents == <<SampleContents[4], SampleContents[5]>>

(* a database file of n buffers, the first archived and the last deleted   *)
(* as the flags say, the second saved with BlankContents[blank]            *)
SearchDb(n, archived, deleted, blank) ==
    LET d1 == CreatedDb(n)
        d2 == IF archived
              THEN UpdateRow(d1, 1, [d1.buffers[1] EXCEPT !.is_archived = TRUE])
              ELSE d1
        d3 == IF deleted THEN delete_buffer(d2, n) ELSE d2
    IN IF blank > 0 THEN update_buffer_content(d3, 2, BlankContents[blank], 0)
       ELSE d3

InitSearch ==
    /\ \E n \in (0..3) \cup {MaxRows}, archived, deleted \in BOOLEAN,
          blank \in 0..Len(BlankContents) :
          /\ archived \/ deleted => n > 1
          /\ blank > 0 => n = 3
          /\ db = SearchDb(n, archived, deleted, blank)
          /\ uuids = n
          /\ fresh = [i \in DOMAIN db.buffers |-> db.buffers[i].content]
          /\ stamped = [i \in DOMAIN db.buffers |-> Stamp(db.buffers[i])]
    /\ wtx = <<>>
    /\ writer = {}
    /\ pooled = {}
    /\ req = [t \in Threads |-> Idle]
    /\ last = NoLast
    /\ now = 0
    /\ ops = 0
    /\ backups = {}

NextSearch ==
    \E t \in Threads :
        \/ AcquireWriter(t)
        \/ \E query \in SearchQueries : search_buffers_call(t, query)
        \/ search_buffers_read(t)
        \/ cleanup_empty_buffers_call(t)
        \/ cleanup_empty_buffers_exec(t)

(* searches, with cleanupEmpty as the writer, over databases of up to      *)
(* MaxRows buffers                                                         *)
SpecSearch == InitSearch /\ [][NextSearch]_vars

(* ---------------------------------------------------------------- backup *)
(* get_last_backup_time: the largest timestamp among the backup files, 0   *)
(* when there is none or when read_dir fails (listed is FALSE)             *)
get_last_backup_time(files, listed) ==
    IF files = {} \/ ~listed THEN 0 ELSE Max(files)

(* needs_backup: now - last_backup >= BACKUP_INTERVAL_SECS on u64, as an   *)
(* Option: None when the subtraction panics. With last_backup > now a      *)
(* build with overflow checks (checked) panics; without them the           *)
(* difference wraps around to 2^64 - (last_backup - now), which is above   *)
(* the interval for every timestamp of this model                          *)
needs_backup(files, clock, listed, checked) ==
    LET last_backup == get_last_backup_time(files, listed)
    IN IF clock >= last_backup
       THEN <<clock - last_backup >= BACKUP_INTERVAL_SECS>>
       ELSE IF checked THEN <<>> ELSE <<TRUE>>

(* backups.sort_by(|a, b| b.1.cmp(&a.1)) *)
RECURSIVE SortDescending(_)
SortDescending(files) ==
    IF files = {} THEN <<>>
    ELSE <<Max(files)>> \o SortDescending(files \ {Max(files)})

(* cleanup_old_backups over the files sorted ascending *)
cleanup_old_backups_ascending(files) ==
    LET sorted == SortDescending(files)
    IN {sorted[i] : i \in 1..(Len(sorted) - MAX_BACKUPS)}

(* cleanup_old_backups: the files it calls remove_file on *)
cleanup_old_backups(files) ==
    LET sorted == SortDescending(files)
    IN {sorted[i] : i \in (MAX_BACKUPS + 1)..Len(sorted)}

(* the steps of init_database that fail fatally ("" for none): opening the *)
(* write connection, the first statement of initialize_schema, a statement *)
(* of it after the default settings, building the reader pool              *)
Stages == {"", "connection", "schema", "triggers", "pool"}

(* init_database that fails when the backup does *)
init_database_backup_fatal(stage, listed, checked, vacuumOk, kept) ==
    LET answer == IF stage = "" THEN needs_backup(backups, now, listed, checked)
                  ELSE <<FALSE>>
        need == answer = <<TRUE>>
        made == need /\ vacuumOk /\ now \notin backups
        started == stage = "" /\ answer # <<>> /\ (need => made)
        doomed == IF made THEN cleanup_old_backups(backups \cup {now}) ELSE {}
        call == [Call("init_database", "done") EXCEPT !.ts = now]
    IN
    /\ \A t \in Threads : req[t].pc \in {"idle", "down"}
    /\ stage \in Stages
    /\ stage # "" => listed /\ checked
    /\ backups = {} => listed
    /\ now >= get_last_backup_time(backups, listed) => checked
    /\ ~need => vacuumOk
    /\ kept \subseteq doomed
    /\ db' = IF stage \in {"connection", "schema"} THEN db
             ELSE initialize_schema(db)
    /\ backups' = IF made THEN (backups \cup {now}) \ (doomed \ kept) ELSE backups
    /\ req' = [t \in Threads |-> IF started THEN Idle ELSE Down]
    /\ last' = [t |-> 0, call |-> call,
                res |-> IF started THEN Ok(<<>>) ELSE Err(stage),
                seen |-> [need |-> need, made |-> made,
                          before |-> backups, kept |-> kept,
                          last_backup |-> get_last_backup_time(backups, listed)]]
    /\ UNCHANGED <<wtx, writer, pooled, now, uuids, ops, fresh, stamped>>

(* the setup of a process launch: init_database and, when it succeeds, the *)
(* registration of the AppState. stage: the step that fails fatally;       *)
(* listed: needs_backup's read_dir succeeds; checked: the build checks     *)
(* arithmetic overflow; vacuumOk: VACUUM INTO (and create_dir_all)         *)
(* succeeds; kept: the old backups whose remove_file fails. A panic in     *)
(* needs_backup ends the process                                           *)
init_database(stage, listed, checked, vacuumOk, kept) ==
    LET answer == IF stage = "" THEN needs_backup(backups, now, listed, checked)
                  ELSE <<FALSE>>
        panic == answer = <<>>
        need == answer = <<TRUE>>
        made == need /\ vacuumOk /\ now \notin backups
        doomed == IF made THEN cleanup_old_backups(backups \cup {now}) ELSE {}
        call == [Call("init_database", "done") EXCEPT !.ts = now]
    IN
    /\ \A t \in Threads : req[t].pc \in {"idle", "down"}
    /\ stage \in Stages
    /\ stage # "" => listed /\ checked
    /\ backups = {} => listed
    /\ now >= get_last_backup_time(backups, listed) => checked
    /\ ~need => vacuumOk
    /\ kept \subseteq doomed
    /\ db' = IF stage \in {"connection", "schema"} THEN db
             ELSE initialize_schema(db)
    /\ backups' = IF made THEN (backups \cup {now}) \ (doomed \ kept) ELSE backups
    /\ req' = [t \in Threads |-> IF stage = "" /\ ~panic THEN Idle ELSE Down]
    /\ last' = [t |-> 0, call |-> call,
                res |-> IF stage # "" THEN Err(stage)
                        ELSE IF panic THEN Err("panic") ELSE Ok(<<>>),
                seen |-> [need |-> need, made |-> made,
                          before |-> backups, kept |-> kept,
                          last_backup |-> get_last_backup_time(backups, listed)]]
    /\ UNCHANGED <<wtx, writer, pooled, now, uuids, ops, fresh, stamped>>

(* the clock between two startups *)
AdvanceClock(d) ==
    /\ now + d <= MaxDays * BACKUP_INTERVAL_SECS
    /\ now' = now + d
    /\ last' = NoLast
    /\ UNCHANGED <<db, wtx, writer, pooled, req, uuids, ops, fresh, stamped, backups>>

(* the system clock set back between two startups *)
SetClockBack(d) ==
    /\ now - d >= BACKUP_INTERVAL_SECS
    /\ now <= MaxSkewDays * BACKUP_INTERVAL_SECS
    /\ now' = now - d
    /\ last' = NoLast
    /\ UNCHANGED <<db, wtx, writer, pooled, req, uuids, ops, fresh, stamped, backups>>

InitBackup ==
    /\ db = EmptyDb
    /\ uuids = 0
    /\ fresh = <<>>
    /\ stamped = <<>>
    /\ wtx = <<>>
    /\ writer = {}
    /\ pooled = {}
    /\ req = [t \in Threads |-> Idle]
    /\ last = NoLast
    /\ now = BACKUP_INTERVAL_SECS
    /\ ops = 0
    /\ backups = {}

NextBackup ==
    \/ \E d \in {BACKUP_INTERVAL_SECS \div 2, BACKUP_INTERVAL_SECS} : AdvanceClock(d)
    \/ \E stage \in Stages, vacuumOk \in BOOLEAN,
          kept \in SUBSET cleanup_old_backups(backups \cup {now}) :
          init_database(stage, TRUE, TRUE, vacuumOk, kept)

(* startups under a clock that runs on: the rotation *)
SpecBackup == InitBackup /\ [][NextBackup]_vars

NextClock ==
    \/ /\ now < MaxSkewDays * BACKUP_INTERVAL_SECS
       /\ AdvanceClock(BACKUP_INTERVAL_SECS \div 2)
    \/ SetClockBack(BACKUP_INTERVAL_SECS \div 2)
    \/ \E stage \in Stages,
          listed, checked, vacuumOk \in BOOLEAN,
          kept \in SUBSET cleanup_old_backups(backups \cup {now}) :
          init_database(stage, listed, checked, vacuumOk, kept)

(* startups over a few days under a clock that may be set back, a backup   *)
(* directory that may fail to list, and either build                       *)
SpecClock == InitBackup /\ [][NextClock]_vars

(* ----------------------------------------------------------------- delete *)
(* a store of one buffer more than InitRows, so that a delete leaves more  *)
(* than one candidate for the next id                                      *)
DeleteIds == 1..(InitRows + 1)

InitDelete ==
    /\ \E pinned, archived, dragged \in BOOLEAN :
          db = StoredDb(InitRows + 1, pinned, archived, dragged)
    /\ uuids = InitRows + 1
    /\ fresh = [i \in DeleteIds |-> SampleOf(i)]
    /\ stamped = [i \in DeleteIds |-> Stamp(CreatedDb(InitRows + 1).buffers[i])]
    /\ wtx = <<>>
    /\ writer = {}
    /\ pooled = {}
    /\ req = [t \in Threads |-> Idle]
    /\ last = NoLast
    /\ now = 0
    /\ ops = 0
    /\ backups = {}

NextDelete ==
    \/ Tick
    \/ \E t \in Threads :
          \/ AcquireWriter(t)
          \/ \E id \in DeleteIds : delete_buffer_call(t, id)
          \/ delete_buffer_exec(t)
          \/ \E id \in DeleteIds : toggle_pin_call(t, id)
          \/ toggle_pin_exec(t)
          \/ \E id \in DeleteIds : get_buffer_content_call(t, id)
          \/ get_buffer_content_touch(t)
          \/ get_buffer_content_read(t)

(* deletes among togglePin and get calls, which change the order *)
SpecDelete == InitDelete /\ [][NextDelete]_vars

(* ------------------------------------------------------------------- pool *)
(* one thread more than the pool has connections *)
PoolThreads == 1..(POOL_SIZE + 1)

(* the read command thread t has in flight with a pooled connection: a get *)
(* before its touch, a list or a search before its query                   *)
InFlight(t) ==
    CASE t = 1 -> [Call("get", "lock") EXCEPT !.id = 1, !.via = "pool"]
      [] t = 3 -> [Call("search", "read") EXCEPT !.content = <<Run("a", 1)>>,
                                                !.via = "pool"]
      [] OTHER -> [Call("list", "read") EXCEPT !.via = "pool"]

(* the application with held read commands in flight, each on a pooled     *)
(* connection                                                              *)
InitPool ==
    /\ \E held \in {POOL_SIZE - 1, POOL_SIZE} :
          /\ req = [t \in PoolThreads |-> IF t <= held THEN InFlight(t) ELSE Idle]
          /\ pooled = 1..held
    /\ \E pinned \in BOOLEAN : db = StoredDb(InitRows, pinned, FALSE, FALSE)
    /\ uuids = InitRows
    /\ fresh = [i \in 1..InitRows |-> SampleOf(i)]
    /\ stamped = [i \in 1..InitRows |-> Stamp(CreatedDb(InitRows).buffers[i])]
    /\ wtx = <<>>
    /\ writer = {}
    /\ last = NoLast
    /\ now = 0
    /\ ops = 0
    /\ backups = {}

NextPool ==
    \E t \in PoolThreads :
        \/ AcquireWriter(t)
        \/ get_buffer_content_call(t, InitRows)
        \/ get_buffer_content_touch(t)
        \/ get_buffer_content_read(t)
        \/ get_sidebar_data_call(t, 0)
        \/ get_sidebar_data_read(t)
        \/ search_buffers_call(t, <<Run("a", 1)>>)
        \/ search_buffers_read(t)
        \/ reorder_buffers_call(t, <<InitRows, 1>>)
        \/ reorder_buffers_begin(t)
        \/ reorder_buffers_row(t)
        \/ reorder_buffers_commit(t)

(* read commands of more threads than the pool has connections, with       *)
(* reorder as the writer                                                   *)
SpecPool == InitPool /\ [][NextPool]_vars

(* ---------------------------------------------------------------- startup *)
(* a process not yet started, over a new file or a file left by earlier    *)
(* runs; no backup has been made                                           *)
InitStartup ==
    /\ \E n \in 0..InitRows, pinned, blank \in BOOLEAN :
          /\ pinned => n > 0
          /\ blank => n = 0
          /\ db = IF blank THEN BlankFile ELSE StoredDb(n, pinned, FALSE, FALSE)
          /\ uuids = n
          /\ fresh = [i \in 1..n |-> SampleOf(i)]
          /\ stamped = [i \in 1..n |-> Stamp(CreatedDb(n).buffers[i])]
    /\ wtx = <<>>
    /\ writer = {}
    /\ pooled = {}
    /\ req = [t \in Threads |-> Down]
    /\ last = NoLast
    /\ now = BACKUP_INTERVAL_SECS
    /\ ops = 0
    /\ backups = {}

(* a day passes *)
NextDay ==
    /\ now < MaxSkewDays * BACKUP_INTERVAL_SECS
    /\ AdvanceClock(BACKUP_INTERVAL_SECS)

NextStartup ==
    \/ NextDay
    \/ \E stage \in Stages, vacuumOk \in BOOLEAN,
          kept \in SUBSET cleanup_old_backups(backups \cup {now}) :
          init_database(stage, TRUE, TRUE, vacuumOk, kept)
    \/ \E t \in Threads :
          \/ \E kv \in SettingInputs : set_setting_call(t, kv[1], kv[2])
          \/ set_setting_exec(t)
          \/ \E id \in Ids : toggle_pin_call(t, id)
          \/ toggle_pin_exec(t)

(* launches of the application, each followed, when its setup succeeds, by *)
(* commands, until the application is quit and launched again              *)
SpecStartup == InitStartup /\ [][NextStartup]_vars

(* ----------------------------------------------------------------- claims *)
StorageErrors ==
    {"Failed to touch buffer", "Failed to get buffer", "Failed to get sidebar data",
     "Failed to search buffers"}

(* C1: a get of a buffer that still holds the content it was created with  *)
(* (no save of that id since, and the row not removed by delete or by      *)
(* cleanupEmpty) returns exactly that content, whatever else has happened  *)
(* to this or to other buffers, unless the storage layer reports an error  *)
C1_CreateThenGet ==
    /\ last.call.op = "get"
    /\ last.res.err \notin StorageErrors
    /\ last.seen.fresh # <<>>
    => last.res = Ok(last.seen.fresh[1])

(* a buffer created in this run with 10 MiB of content at time 1 is read   *)
(* back                                                                    *)
C1_Witness ==
    /\ last.call.op = "get"
    /\ last.res = Ok(AtLimit)
    /\ last.seen.fresh = <<AtLimit>>
    /\ last.seen.row[1].created_at = 1

(* C2: create and save answer with the size error exactly when the content *)
(* is longer than MAX_BUFFER_SIZE bytes (10 MiB itself is accepted), and    *)
(* the step that rejects takes no lock and leaves the database, and so the *)
(* list, as it was                                                         *)
C2_SizeRejected ==
    /\ [](last.call.op \in {"create", "save"}
            => (last.res = Err("too large")
                  <=> ByteLen(last.call.content) > MAX_BUFFER_SIZE))
    /\ [][last'.res = Err("too large")
            => /\ db' = db
               /\ wtx' = wtx
               /\ writer' = writer
               /\ get_sidebar_buffers(db', SIDEBAR_LIMIT)
                     = get_sidebar_buffers(db, SIDEBAR_LIMIT)]_vars

(* a save of one byte more than 10 MiB is rejected while a buffer of       *)
(* exactly 10 MiB is stored                                                *)
C2_Witness ==
    /\ last.call.op = "save"
    /\ last.res = Err("too large")
    /\ ByteLen(last.call.content) = MAX_BUFFER_SIZE + 1
    /\ \E i \in DOMAIN db.buffers : ByteLen(db.buffers[i].content) = MAX_BUFFER_SIZE

(* C3: the nextId of a successful delete(id) is never id; it is null       *)
(* exactly when no non-archived buffer other than id existed at the        *)
(* delete, and otherwise names one of those                                *)
C3_NextId ==
    last.call.op = "delete" /\ last.res.ok
    => LET next_id == last.res.val[1]
       IN /\ next_id # <<last.call.id>>
          /\ (next_id = <<>>) <=> (last.seen.others = {})
          /\ next_id # <<>> => next_id[1] \in last.seen.others

(* an existing buffer is deleted while another one is left *)
C3_Witness ==
    /\ last.call.op = "delete"
    /\ last.res.ok
    /\ last.seen.existed
    /\ last.res.val[1] # <<>>
    /\ last.res.val[1][1] \in DOMAIN db.buffers

Position(rows, id) == CHOOSE i \in 1..Len(rows) : rows[i].id = id

InOrder(rows, ids) ==
    \A i, j \in 1..Len(ids) :
        i < j => Position(rows, ids[i]) < Position(rows, ids[j])

(* ids are distinct, existing, non-pinned, non-archived buffers of d *)
Reorderable(d, ids) ==
    /\ \A i, j \in 1..Len(ids) : i # j => ids[i] # ids[j]
    /\ \A i \in 1..Len(ids) :
          /\ ids[i] \in NotArchived(d.buffers)
          /\ ~d.buffers[ids[i]].is_pinned

(* C4: after a successful reorder(ids) of distinct existing non-pinned     *)
(* non-archived buffers, every answer list can give shows them in the      *)
(* order of ids                                                            *)
C4_ReorderThenList ==
    /\ last.call.op = "reorder"
    /\ last.res.ok
    /\ Reorderable(last.call.base[1], last.call.ids)
    => \A rows \in get_sidebar_buffers(db, SIDEBAR_LIMIT) :
           InOrder(rows, last.call.ids)

(* two buffers that list could only show the other way round before *)
C4_Witness ==
    /\ last.call.op = "reorder"
    /\ last.res.ok
    /\ Len(last.call.ids) = 2
    /\ Reorderable(last.call.base[1], last.call.ids)
    /\ \A rows \in get_sidebar_buffers(last.call.base[1], SIDEBAR_LIMIT) :
          ~InOrder(rows, last.call.ids)

PinnedFirst(rows) ==
    \A i, j \in 1..Len(rows) : i < j /\ rows[j].is_pinned => rows[i].is_pinned

(* C5: in every reachable state every answer list can give, and every      *)
(* answer it gave, has each pinned buffer before each non-pinned one       *)
C5_PinnedFirst ==
    /\ \A rows \in get_sidebar_buffers(db, SIDEBAR_LIMIT) : PinnedFirst(rows)
    /\ last.call.op = "list" /\ last.res.ok => PinnedFirst(last.res.val[1])

(* list answers with a pinned buffer ahead of a non-pinned one of smaller  *)
(* sort_order                                                              *)
C5_Witness ==
    /\ last.call.op = "list"
    /\ last.res.ok
    /\ LET rows == last.res.val[1]
       IN /\ Len(rows) >= 2
          /\ rows[1].is_pinned
          /\ ~rows[2].is_pinned
          /\ db.buffers[rows[1].id].sort_order > db.buffers[rows[2].id].sort_order

(* every row of d carries a (content, updated_at) pair written together *)
PairsWhole(d, pairs) ==
    \A i \in DOMAIN d.buffers :
        i \in DOMAIN pairs /\ Stamp(d.buffers[i]) = pairs[i]

(* C6: no read sees new content with the old updated_at or the old content *)
(* with the new updated_at: every row of the committed database and of the *)
(* writer's transaction, the row a get read, and the entries list and      *)
(* search returned carry a content and an updated_at written together      *)
C6_ContentStampAtomic ==
    /\ PairsWhole(db, stamped)
    /\ wtx # <<>> => PairsWhole(wtx[1], stamped)
    /\ last.call.op = "get" /\ last.res.ok
          => last.seen.stamp = <<Stamp(last.seen.row[1])>>
    /\ last.call.op = "list" /\ last.res.ok
          => \A k \in 1..Len(last.res.val[1]) :
                LET e == last.res.val[1][k]
                    pair == last.seen.stamped[e.id]
                IN /\ e.updated_at = pair.updated_at
                   /\ e.title = extract_title_preview(pair.content).title
                   /\ e.preview = extract_title_preview(pair.content).preview
    /\ last.call.op = "search" /\ last.res.ok
          => \A e \in last.res.val[1] :
                /\ e.updated_at = last.seen.stamped[e.id].updated_at
                /\ e.snippet.text = last.seen.stamped[e.id].content

(* a get on a pooled reader whose read came after a save that came after   *)
(* its touch                                                               *)
C6_Witness ==
    /\ last.call.op = "get"
    /\ last.call.via = "pool"
    /\ last.res.ok
    /\ last.seen.row[1].updated_at > last.seen.row[1].accessed_at

(* C7: at most one thread holds the writer, and every step that changes    *)
(* the database or the writer's transaction is a step of the thread that   *)
(* holds it                                                                *)
C7_WritesUnderLock ==
    /\ [](Cardinality(writer) <= 1)
    /\ [][db' # db \/ wtx' # wtx
            => \E t \in writer : req'[t] # req[t]]_vars

(* a reorder is in its transaction, one row done, while another thread     *)
(* waits for the writer                                                    *)
C7_Witness ==
    \E t, u \in Threads :
        /\ writer = {t}
        /\ req[t].op = "reorder" /\ req[t].pc = "tx" /\ req[t].k = 1
        /\ wtx # <<>> /\ wtx[1] # db
        /\ req[u].pc = "lock"

(* C8: while a reorder is in its transaction the committed database is the *)
(* one it started from, a list answered meanwhile is an answer for that    *)
(* database, and a reorder that fails leaves the database as it was        *)
C8_ReorderAllOrNothing ==
    /\ \A t \in Threads :
          req[t].op = "reorder" /\ req[t].pc = "tx"
          => /\ db = req[t].base[1]
             /\ last.call.op = "list" /\ last.res.ok
                   => last.res.val[1]
                         \in get_sidebar_buffers(req[t].base[1], SIDEBAR_LIMIT)
    /\ last.call.op = "reorder" /\ ~last.res.ok => db = last.call.base[1]

(* list answers while one of two rows of a reorder has its new sort_order  *)
(* in the open transaction                                                 *)
C8_Witness ==
    /\ last.call.op = "list"
    /\ last.res.ok
    /\ \E t \in Threads :
          /\ req[t].op = "reorder" /\ req[t].pc = "tx"
          /\ req[t].k = 1 /\ Len(req[t].ids) = 2
          /\ wtx[1].buffers # db.buffers

Matches(content, query) ==
    \A term \in split_whitespace(query) :
        \E token \in split_whitespace(content) : IsPrefix(term, token)

(* C9: in every committed state the index has exactly one entry per        *)
(* buffer, with the buffer's current content, and none else; a successful  *)
(* search returns exactly the non-archived buffers whose current content   *)
(* matches, with that content                                              *)
C9_IndexInSync ==
    /\ \A i, j \in DOMAIN db.buffers :
          i # j => db.buffers[i].rowid # db.buffers[j].rowid
    /\ db.fts = SetToBag({FtsEntry(db.buffers[i]) : i \in DOMAIN db.buffers})
    /\ last.call.op = "search" /\ last.res.ok
          /\ split_whitespace(last.call.content) # {}
          => /\ {e.id : e \in last.res.val[1]}
                   = {i \in NotArchived(db.buffers) :
                         Matches(db.buffers[i].content, last.call.content)}
             /\ \A e \in last.res.val[1] :
                   e.snippet.text = db.buffers[e.id].content

(* search finds a buffer by the content a save gave it *)
C9_Witness ==
    /\ last.call.op = "search"
    /\ last.res.ok
    /\ \E e \in last.res.val[1] :
          /\ e.id \notin DOMAIN fresh
          /\ e.updated_at = 1

(* the files of the MAX_BACKUPS largest timestamps *)
Newest(files) ==
    {x \in files : Cardinality({y \in files : y > x}) < MAX_BACKUPS}

(* the files a startup that made a backup leaves, were the rotation exact *)
Rotated == Newest(last.seen.before \cup {last.call.ts})

C11_OncePerInterval ==
    /\ last.call.op = "init_database" /\ last.seen.need
          => \/ last.seen.before = {}
             \/ last.call.ts >= Max(last.seen.before) + BACKUP_INTERVAL_SECS
    /\ \A x, y \in backups : x < y => y - x >= BACKUP_INTERVAL_SECS

(* C12: no step lowers the accessed_at of a buffer, and the touch of a get  *)
(* sets the accessed_at of its buffer to the clock, which is no less than  *)
(* the value before                                                        *)
C12_AccessedAtMonotonic ==
    [][/\ \A i \in (DOMAIN db.buffers) \cap (DOMAIN db'.buffers) :
             db'.buffers[i].accessed_at >= db.buffers[i].accessed_at
       /\ \A t \in Threads :
             /\ req[t].op = "get" /\ req[t].pc = "exec" /\ req'[t].pc = "read"
             /\ req[t].id \in DOMAIN db.buffers
             => /\ db'.buffers[req[t].id].accessed_at = now
                /\ now >= db.buffers[req[t].id].accessed_at]_vars

(* a get returned the content of a buffer it touched after the clock had   *)
(* moved on from the buffer's creation                                     *)
C12_Witness ==
    /\ last.call.op = "get"
    /\ last.res.ok
    /\ last.seen.row[1].accessed_at > last.seen.row[1].created_at

(* the index of the first non-blank line from line i on, 0 for none *)
RECURSIVE NextNonBlank(_, _)
NextNonBlank(lines, i) ==
    IF i > Len(lines) THEN 0
    ELSE IF \E k \in 1..Len(lines[i]) : ~IsWhitespace(lines[i][k].c) THEN i
    ELSE NextNonBlank(lines, i + 1)

DerivedTitle(content) ==
    LET k == NextNonBlank(Lines(content), 1)
    IN IF k = 0 THEN UNTITLED ELSE TakeChars(Trim(Lines(content)[k]), 100)

DerivedPreview(content) ==
    LET k == NextNonBlank(Lines(content), 1)
        n == IF k = 0 THEN 0 ELSE NextNonBlank(Lines(content), k + 1)
    IN IF n = 0 THEN <<>> ELSE TakeChars(Trim(Lines(content)[n]), 100)

(* C13: after a successful save(id, content) on an existing non-archived   *)
(* buffer, the pair save returned is (first non-blank line trimmed and cut *)
(* to 100 characters, or "Untitled"; next non-blank line after it trimmed  *)
(* and cut to 100 characters, or empty), and the entry of id in every      *)
(* answer list can give carries the same title and preview                 *)
C13_SaveThenList ==
    /\ last.call.op = "save"
    /\ last.res.ok
    /\ last.call.id \in NotArchived(db.buffers)
    => LET pair == last.res.val[1]
       IN /\ pair.title = DerivedTitle(last.call.content)
          /\ pair.preview = DerivedPreview(last.call.content)
          /\ \A rows \in get_sidebar_buffers(db, SIDEBAR_LIMIT) :
                \A k \in 1..Len(rows) :
                    rows[k].id = last.call.id
                    => rows[k].title = pair.title /\ rows[k].preview = pair.preview

(* a save of a text with a blank line, a title line in spaces, blank lines *)
(* and a preview line                                                      *)
C13_Witness ==
    /\ last.call.op = "save"
    /\ last.res.ok
    /\ last.call.id \in NotArchived(db.buffers)
    /\ last.call.content = SampleContents[3]
    /\ last.res.val[1] = [title |-> <<Run("b", 1)>>, preview |-> <<Run("a", 1)>>]

Blank(query) == Trim(query) = <<>>

(* C14: a search with an empty or whitespace-only query returns the empty  *)
(* list with success in the step that calls it: the caller takes no pooled *)
(* reader and not the write lock, no search with a blank query is ever on  *)
(* its way to the store, and the store and an open transaction are left    *)
(* as they were                                                            *)
C14_BlankSearch ==
    [][/\ \A t \in Threads :
             req'[t].op = "search" => ~Blank(req'[t].content)
       /\ last'.call.op = "search" /\ Blank(last'.call.content)
             => /\ last'.res = Ok({})
                /\ last'.call.via = ""
                /\ req[last'.t].pc = "idle"
                /\ db' = db /\ wtx' = wtx
                /\ writer' = writer /\ pooled' = pooled]_vars

C14_Witness ==
    /\ last.call.op = "search"
    /\ last.call.content = <<Run(" ", 2)>>
    /\ last.res = Ok({})
    /\ \E t \in Threads : t # last.t /\ t \in writer /\ req[t].op = "cleanup"

MatchingBuffers(query) ==
    {i \in NotArchived(db.buffers) : Matches(db.buffers[i].content, query)}

(* C15: a successful search for one or more terms returns at most 20       *)
(* results, each a stored, non-archived buffer whose content has, for      *)
(* every term, a token starting with the term                              *)
C15_SearchResults ==
    /\ last.call.op = "search" /\ last.res.ok
    /\ split_whitespace(last.call.content) # {}
    => /\ Cardinality(last.res.val[1]) <= SEARCH_LIMIT
       /\ \A r \in last.res.val[1] :
             /\ r.id \in MatchingBuffers(last.call.content)
             /\ r.snippet.text = db.buffers[r.id].content

C15_Witness ==
    /\ last.call.op = "search" /\ last.res.ok
    /\ last.call.content = <<Run("a", 1)>>
    /\ Cardinality(last.res.val[1]) = SEARCH_LIMIT
    /\ Cardinality(MatchingBuffers(last.call.content)) > SEARCH_LIMIT
    /\ \E i \in DOMAIN db.buffers :
          /\ db.buffers[i].is_archived
          /\ Matches(db.buffers[i].content, last.call.content)
    /\ Cardinality(DOMAIN db.buffers) < uuids

(* C16: a search whose query cannot be made a valid index query returns    *)
(* the empty list with success, never an error, and leaves the store as it *)
(* was                                                                     *)
C16_InvalidQuery ==
    [][last'.call.op = "search" /\ ~IndexQueryParses(last'.call.content)
          => /\ last'.res = Ok({})
             /\ db' = db /\ wtx' = wtx]_vars

C16_Witness ==
    /\ last.call.op = "search"
    /\ ~Blank(last.call.content)
    /\ ~IndexQueryParses(last.call.content)
    /\ last.res = Ok({})
    /\ MatchingBuffers(<<Run("a", 1)>>) # {}

(* C17: a successful create gives the new buffer a sort_order one less     *)
(* than the least sort_order of the buffers stored before it (-1 when      *)
(* there are none) and leaves theirs as they were, and every list shows    *)
(* the new buffer before every other buffer that is not pinned             *)
C17_CreateOnTop ==
    [][last'.call.op = "create" /\ last'.res.ok
          => LET id == last'.call.id
                 existing == DOMAIN db.buffers
             IN /\ db'.buffers[id].sort_order =
                      IF existing = {} THEN -1
                      ELSE Min({db.buffers[i].sort_order : i \in existing}) - 1
                /\ \A i \in existing :
                      /\ i \in DOMAIN db'.buffers
                      /\ db'.buffers[i].sort_order = db.buffers[i].sort_order
                /\ \A rows \in get_sidebar_buffers(db', SIDEBAR_LIMIT) :
                      \A k, j \in 1..Len(rows) :
                          rows[k].id = id /\ j # k /\ ~rows[j].is_pinned
                          => k < j]_vars

ListedIds(d) ==
    {[k \in 1..Len(rows) |-> rows[k].id] :
        rows \in get_sidebar_buffers(d, SIDEBAR_LIMIT)}

(* C18: a save that returns has changed nothing but the content and        *)
(* updated_at of its buffer: the buffer's other fields, every other        *)
(* buffer and the orders a list may show are as before                     *)
C18_SaveFrame ==
    [][last'.call.op = "save"
          => LET id == last'.call.id
             IN /\ DOMAIN db'.buffers = DOMAIN db.buffers
                /\ \A i \in DOMAIN db.buffers :
                      IF i = id
                      THEN db'.buffers[i] =
                              [db.buffers[i] EXCEPT
                                  !.content = db'.buffers[i].content,
                                  !.updated_at = db'.buffers[i].updated_at]
                      ELSE db'.buffers[i] = db.buffers[i]
                /\ ListedIds(db') = ListedIds(db)
                /\ db'.settings = db.settings]_vars

C18_Witness ==
    /\ last.call.op = "save" /\ last.res.ok
    /\ last.call.id \in NotArchived(db.buffers)
    /\ db.buffers[last.call.id].content = last.call.content
    /\ last.call.content # SampleOf(last.call.id)
    /\ db.buffers[last.call.id].updated_at > db.buffers[last.call.id].accessed_at
    /\ Cardinality(NotArchived(db.buffers)) > 1

(* C19: a togglePin that succeeds returns the negation of the flag stored  *)
(* when it took the write lock and leaves that value stored, whatever the  *)
(* other threads are doing; nothing else of the store changes, and a       *)
(* second toggle of the same buffer brings the store back                  *)
C19_TogglePin ==
    [][last'.call.op = "toggle_pin" /\ last'.res.ok
          => LET id == last'.call.id
             IN /\ id \in DOMAIN db.buffers
                /\ last'.res.val[1] = ~db.buffers[id].is_pinned
                /\ db'.buffers =
                      [db.buffers EXCEPT ![id].is_pinned = last'.res.val[1]]
                /\ db'.settings = db.settings
                /\ toggle_pin(db', id).pinned = <<db.buffers[id].is_pinned>>
                /\ toggle_pin(db', id).db.buffers = db.buffers]_vars

C19_Witness ==
    /\ last.call.op = "toggle_pin" /\ last.res.ok
    /\ last.call.id = 2
    /\ last.res.val[1] = FALSE
    /\ ~db.buffers[2].is_pinned
    /\ ops = MaxOps

BlankBuffers(d) ==
    {i \in NotArchived(d.buffers) : Trim(d.buffers[i].content) = <<>>}

(* C20: a cleanupEmpty that succeeds removes exactly the non-archived      *)
(* buffers whose content is empty after trimming whitespace and returns    *)
(* their number; the other buffers are as before, and a second call at     *)
(* once would remove nothing and return 0                                  *)
C20_CleanupEmpty ==
    [][last'.call.op = "cleanup" /\ last'.res.ok
          => /\ DOMAIN db'.buffers = (DOMAIN db.buffers) \ BlankBuffers(db)
             /\ last'.res.val[1] = Cardinality(BlankBuffers(db))
             /\ \A i \in DOMAIN db'.buffers : db'.buffers[i] = db.buffers[i]
             /\ delete_empty_buffers(db') = [db |-> db', count |-> 0]]_vars

Creating(t) == req[t].op = "create" /\ req[t].pc = "exec"

(* C21: every stored buffer has created_at <= updated_at; no step changes  *)
(* the created_at of a buffer that stays stored under its id; the id a     *)
(* create is about to insert is the id of no stored buffer and of no other *)
(* create in flight, and stored buffers have rowids of their own           *)
C21_BufferInvariants ==
    [][/\ \A d \in {db, db'} : \A i \in DOMAIN d.buffers :
             d.buffers[i].created_at <= d.buffers[i].updated_at
       /\ \A i \in (DOMAIN db.buffers) \cap (DOMAIN db'.buffers) :
             /\ db'.buffers[i].created_at = db.buffers[i].created_at
             /\ db'.buffers[i].rowid = db.buffers[i].rowid
       /\ \A t \in Threads :
             Creating(t)
             => /\ req[t].id \notin DOMAIN db.buffers
                /\ \A u \in Threads \ {t} : Creating(u) => req[u].id # req[t].id
       /\ \A i, j \in DOMAIN db'.buffers :
             i # j => db'.buffers[i].rowid # db'.buffers[j].rowid]_vars

C21_Witness ==
    /\ last.call.op = "save" /\ last.res.ok
    /\ last.call.id \in DOMAIN db.buffers
    /\ last.call.id = uuids
    /\ db.buffers[last.call.id].updated_at > db.buffers[last.call.id].created_at
    /\ Cardinality(DOMAIN db.buffers) > 1

(* C22: a startup, whether it succeeds or fails, leaves every buffer and   *)
(* index entry and every stored setting as it was and adds only defaults   *)
(* for keys that were missing; after a successful startup a further        *)
(* initialize_schema changes nothing                                       *)
C22_SchemaIdempotent ==
    [][last'.call.op = "init_database"
          => /\ db'.buffers = db.buffers
             /\ db'.fts = db.fts
             /\ \A k \in DOMAIN db.settings :
                   k \in DOMAIN db'.settings /\ db'.settings[k] = db.settings[k]
             /\ \A k \in (DOMAIN db'.settings) \ (DOMAIN db.settings) :
                   k \in DOMAIN DefaultSettings /\ db'.settings[k] = DefaultSettings[k]
             /\ last'.res.ok => initialize_schema(db') = db']_vars

C22_Witness ==
    /\ last.call.op = "init_database" /\ last.res.ok
    /\ db.settings["font_size"] = "16"
    /\ db.settings["font_family"] = DefaultSettings["font_family"]
    /\ \E i \in DOMAIN db.buffers : db.buffers[i].is_pinned

Registered(r) == \A t \in Threads : r[t].pc # "down"

(* C23: a startup whose backup attempt fails still succeeds and registers  *)
(* the application state, and the store is what initialize_schema made of  *)
(* it: every buffer, index entry and stored setting as before the startup  *)
C23_BackupFailureHarmless ==
    [][/\ last'.call.op = "init_database"
       /\ last'.seen.need /\ ~last'.seen.made
       => /\ last'.res.ok
          /\ Registered(req')
          /\ db' = initialize_schema(db)
          /\ db'.buffers = db.buffers /\ db'.fts = db.fts
          /\ \A k \in DOMAIN db.settings : db'.settings[k] = db.settings[k]]_vars

C23_Witness ==
    /\ last.call.op = "init_database" /\ last.res.ok
    /\ last.seen.need /\ ~last.seen.made
    /\ last.seen.before # {}
    /\ Registered(req)
    /\ db.settings["font_size"] = "16"
    /\ DOMAIN db.buffers # {}

(* C24: a startup that fails at the write connection, the schema or the    *)
(* reader pool returns an initialization error, makes no backup check and  *)
(* leaves the application state unregistered; a thread serves a command    *)
(* only after a successful startup, whose schema initialization came       *)
(* first: the schema is in place when the pool is built (also when that    *)
(* fails) and whenever a command runs, and the backup check is made only   *)
(* after all three steps                                                   *)
C24_StartupOrder ==
    [][/\ last'.call.op = "init_database"
          => /\ last'.res.ok <=> last'.res.err \notin Stages \ {""}
             /\ last'.res.ok <=> Registered(req')
             /\ ~last'.res.ok => ~last'.seen.need /\ backups' = backups
             /\ last'.res.err \in {"connection", "schema"} => db' = db
             /\ last'.res.ok \/ last'.res.err = "pool"
                   => db' = initialize_schema(db) /\ initialize_schema(db') = db'
       /\ \A t \in Threads :
             /\ req[t].pc = "down" /\ req'[t].pc # "down"
                   => last'.call.op = "init_database" /\ last'.res.ok
             /\ req'[t].pc \notin {"down", "idle"}
                   => Registered(req) /\ initialize_schema(db') = db'
       /\ last'.call.op \notin {"idle", "init_database"}
             => Registered(req) /\ initialize_schema(db) = db]_vars

C24_Witness ==
    /\ last.call.op = "init_database"
    /\ last.res.err = "pool"
    /\ ~Registered(req)
    /\ ops > 0
    /\ db.settings["font_size"] = "16"

(* C25: never more than POOL_SIZE pooled connections are out; a get, list  *)
(* or search that found no pooled connection holds none, runs with the     *)
(* write lock, and what it returns is what a pooled reader returns on the  *)
(* committed database                                                      *)
C25_WriterFallback ==
    /\ Cardinality(pooled) <= POOL_SIZE
    /\ \A t \in DOMAIN req :
          /\ req[t].via = "writer" => t \notin pooled
          /\ req[t].via = "writer" /\ req[t].pc \in {"exec", "read"}
                => t \in writer /\ wtx = <<>>
    /\ last.call.via = "writer" /\ last.res.ok
       => CASE last.call.op = "list"
                 -> last.res.val[1] \in get_sidebar_buffers(db, SIDEBAR_LIMIT)
            [] last.call.op = "search"
                 -> last.res.val[1] \in
                       search_buffers(db, last.call.content, SEARCH_LIMIT)
            [] last.call.op = "get"
                 -> get_buffer_content(db, last.call.id) # <<>>
                    /\ last.res.val[1] = get_buffer_content(db, last.call.id)[1].content
            [] OTHER -> FALSE

C25_Witness ==
    /\ last.call.op = "list" /\ last.call.via = "writer" /\ last.res.ok
    /\ Len(last.res.val[1]) = InitRows
    /\ Cardinality(pooled) = POOL_SIZE
    /\ \E t \in pooled : req[t].op = "get" /\ req[t].pc = "lock"

(* C26: the step in which a buffer or settings command returns an error    *)
(* changes nothing in the store, and a get on the write connection that    *)
(* returns an error has left the buffer as it was before its accessed_at   *)
(* update                                                                  *)
C26_ErrorsLeaveStore ==
    [][last'.call.op \notin {"idle", "init_database"} /\ ~last'.res.ok
          => /\ db' = db
             /\ last'.call.op = "get" /\ last'.call.via = "writer"
                /\ last'.call.base # <<>>
                => db'.buffers[last'.call.id] = last'.call.base[1]]_vars

(* C27: a get whose accessed_at update hit a stored buffer, and whose      *)
(* content read did not fail, returns the content the buffer had at the    *)
(* update and never not-found, on the pooled path and on the write         *)
(* connection                                                              *)
C27_GetAtomic ==
    /\ last.call.op = "get" /\ last.call.base # <<>>
    /\ last.res.err # "Failed to get buffer"
    => /\ last.res.ok
       /\ last.res.val[1] = last.call.base[1].content

(* C28: a successful delete computes nextId and deletes the row under one  *)
(* hold of the write lock; nextId is a non-archived buffer other than id   *)
(* that comes first among them (pinned before unpinned, then the lower     *)
(* sort_order, then the later accessed_at), it is still stored when the    *)
(* delete commits and some list of the store then starts with it; nextId   *)
(* is null only when the list is empty                                     *)
C28_NextIdHeadOfList ==
    [][last'.call.op = "delete" /\ last'.res.ok
          => LET next_id == last'.res.val[1]
                 rest == NotArchived(db'.buffers)
             IN /\ last'.t \in writer /\ wtx = <<>> /\ wtx' = <<>>
                /\ rest = NotArchived(db.buffers) \ {last'.call.id}
                /\ next_id = <<>> <=> rest = {}
                /\ next_id # <<>>
                   => LET n == next_id[1]
                      IN /\ n \in rest
                         /\ \A j \in rest :
                               LET a == db'.buffers[n]
                                   b == db'.buffers[j]
                               IN /\ b.is_pinned => a.is_pinned
                                  /\ a.is_pinned = b.is_pinned
                                        => a.sort_order <= b.sort_order
                                  /\ a.is_pinned = b.is_pinned
                                     /\ a.sort_order = b.sort_order
                                        => a.accessed_at >= b.accessed_at
                         /\ \E rows \in get_sidebar_buffers(db', SIDEBAR_LIMIT) :
                               rows[1].id = n]_vars

C28_Witness ==
    /\ last.call.op = "delete" /\ last.res.ok /\ last.seen.existed
    /\ last.res.val[1] # <<>>
    /\ db.buffers[last.res.val[1][1]].is_pinned
    /\ \E j \in NotArchived(db.buffers) :
          /\ ~db.buffers[j].is_pinned
          /\ db.buffers[j].sort_order < db.buffers[last.res.val[1][1]].sort_order

(* ----------------------------------------------------- the list in batches *)
(* A store of more than two batches: n create calls (CreatedDb(n), built  *)
(* by halves), then the second buffer archived, as the flag says.          *)
RECURSIVE CreatedRange(_, _, _)
CreatedRange(d, lo, hi) ==
    IF hi \in DOMAIN d.buffers \/ lo > hi THEN d
    ELSE IF lo = hi THEN create_buffer(d, lo, SampleOf(lo), 0, TRUE)
    ELSE LET mid == (lo + hi) \div 2
         IN CreatedRange(CreatedRange(d, lo, mid), mid + 1, hi)

ListDb(n, archived) ==
    LET d1 == CreatedRange(EmptyDb, 1, n)
    IN IF archived
       THEN UpdateRow(d1, 2, [d1.buffers[2] EXCEPT !.is_archived = TRUE])
       ELSE d1

ListOffsets == {0, SIDEBAR_LIMIT, 2 * SIDEBAR_LIMIT}

InitList ==
    /\ \E n \in {InitRows, ListRows}, archived \in BOOLEAN :
          /\ db = ListDb(n, archived)
          /\ uuids = n
          /\ fresh = [i \in 1..n |-> SampleOf(i)]
          /\ stamped = [i \in 1..n |-> [content |-> SampleOf(i), updated_at |-> 0]]
    /\ wtx = <<>>
    /\ writer = {}
    /\ pooled = {}
    /\ req = [t \in Threads |-> Idle]
    /\ last = NoLast
    /\ now = 0
    /\ ops = 0
    /\ backups = {}

NextList ==
    \E t \in Threads :
        \/ AcquireWriter(t)
        \/ \E offset \in ListOffsets : get_sidebar_data_call(t, offset)
        \/ get_sidebar_data_read(t)
        \/ toggle_pin_call(t, 1)
        \/ toggle_pin_exec(t)
        \/ delete_buffer_call(t, uuids)
        \/ delete_buffer_exec(t)

(* the batches of the list, among togglePin and delete calls *)
SpecList == InitList /\ [][NextList]_vars

(* the ids of the summaries of a batch *)
BatchIds(rows) == {rows[i].id : i \in 1..Len(rows)}

PoolStep(t) ==
    \/ AcquireWriter(t)
    \/ get_buffer_content_touch(t)
    \/ get_buffer_content_read(t)
    \/ get_sidebar_data_read(t)
    \/ search_buffers_read(t)
    \/ reorder_buffers_begin(t)
    \/ reorder_buffers_row(t)
    \/ reorder_buffers_commit(t)

(* every pooled connection is taken by a command in flight *)
InitPoolFull == InitPool /\ Cardinality(pooled) = POOL_SIZE /\ ~db.buffers[1].is_pinned

(* SpecPool, from a used-up pool, where no thread with a command in flight *)
(* is left out for ever; whether a command is invoked at all stays open    *)
SpecPoolFair ==
    InitPoolFull /\ [][NextPool]_vars /\ \A t \in PoolThreads : WF_vars(PoolStep(t))

(* C30: under fair scheduling every command in flight returns, whatever    *)
(* it waits for (the write lock, also while it holds a pooled connection   *)
(* and the pool is used up): from a state with commands in flight a state  *)
(* is reached where all of them have returned. A thread whose command has  *)
(* returned, with a value or with an error, holds neither the write lock   *)
(* nor a pooled connection.                                                *)
C30_Termination ==
    /\ (\E t \in PoolThreads : req[t].pc # "idle")
          ~> (\A t \in PoolThreads : req[t].pc = "idle")
    /\ [](\A t \in PoolThreads :
             req[t].pc = "idle" => t \notin writer /\ t \notin pooled)
    /\ [](last.t # 0 /\ wtx = <<>> /\ (\A t \in PoolThreads : req[t].pc = "idle")
             => writer = {} /\ pooled = {})

(* a get that holds a pooled connection waits for the write lock while the *)
(* pool is used up and a read command that got no pooled connection holds  *)
(* the write lock                                                          *)
C30_Witness ==
    /\ \E t \in pooled : req[t].op = "get" /\ req[t].pc = "lock" /\ t \notin writer
    /\ Cardinality(pooled) = POOL_SIZE
    /\ \E t \in writer : req[t].via = "writer" /\ req[t].pc \in {"exec", "read"}

(* C31: a startup whose needs_backup finds a newest backup stamped later   *)
(* than the clock neither fails in the subtraction now - last_backup nor   *)
(* reports a backup as needed                                              *)
C31_NoUnderflow ==
    last.call.op = "init_database" /\ last.res.err \notin Stages \ {""}
    /\ last.seen.last_backup > last.call.ts
       => last.res.ok /\ ~last.seen.need

(* C32: a save whose id names no stored buffer creates no row and leaves   *)
(* the store as it was; it does not report the missing buffer: its only    *)
(* errors are the size check and a failed statement, and otherwise it      *)
(* returns the title and preview of the content it was given               *)
C32_SaveMissing ==
    [][last'.call.op = "save" /\ last'.call.id \notin DOMAIN db.buffers
          => /\ db' = db
             /\ fresh' = fresh /\ stamped' = stamped
             /\ IF last'.res.ok
                THEN last'.res.val[1] = extract_title_preview(last'.call.content)
                ELSE last'.res.err \in {"too large", "Failed to save buffer"}]_vars

(* a save of a buffer that a delete has removed returned a title *)
C32_Witness ==
    /\ last.call.op = "save" /\ last.res.ok
    /\ last.call.id \notin DOMAIN db.buffers
    /\ last.call.id <= uuids
    /\ last.res.val[1].title # UNTITLED
    /\ DOMAIN db.buffers # {}

(* the index, from 0, of the last place of id in ids *)
LastIndex(ids, id) == Max({k \in 1..Len(ids) : ids[k] = id}) - 1

(* C33: a reorder that succeeds sets the sort_order of every stored buffer *)
(* named in ids to its index in ids, from 0 (the last one where ids names  *)
(* it twice), and changes nothing else: no row comes or goes, a buffer not *)
(* named keeps its row, a named one keeps its content, timestamps and      *)
(* flags, and the search index and the settings stay; a reorder that       *)
(* fails changes nothing                                                   *)
C33_ReorderFrame ==
    [][last'.call.op = "reorder"
          => IF last'.res.ok
             THEN LET ids == last'.call.ids
                      named == {ids[k] : k \in 1..Len(ids)}
                  IN /\ DOMAIN db'.buffers = DOMAIN db.buffers
                     /\ \A i \in DOMAIN db.buffers :
                           db'.buffers[i] =
                              IF i \in named
                              THEN [db.buffers[i] EXCEPT
                                      !.sort_order = LastIndex(ids, i)]
                              ELSE db.buffers[i]
                     /\ db'.fts = db.fts
                     /\ db'.settings = db.settings
             ELSE db' = db]_vars

(* a reorder of two ids, the first of which names a buffer that a delete   *)
(* has removed, succeeded and moved the second one to index 1              *)
C33_Witness ==
    /\ last.call.op = "reorder" /\ last.res.ok
    /\ last.call.ids = <<1, 2>>
    /\ 1 \notin DOMAIN db.buffers
    /\ 2 \in DOMAIN db.buffers
    /\ db.buffers[2].sort_order = 1

====
